---------------------------- MODULE Spec2Model ----------------------------
(* A model of ezstr (src/src/lib.rs): the grapheme-indexed string EzStr,   *)
(* its two OnceCell caches, the byte-offset -> grapheme-index locator,     *)
(* negative-index slicing, the translation of regex byte matches into      *)
(* GraphemeMatch values and the match validator.                           *)
(*                                                                         *)
(* A Rust String is modelled as the sequence of its code points; byte      *)
(* offsets are computed from the UTF-8 width of every code point.          *)
EXTENDS Integers, Sequences, FiniteSets, TLC

VARIABLES
    data,                      \* EzStr.data: the raw text
    graphemes_data,            \* EzStr.graphemes_data: OnceCell<Vec<Grapheme>>
    grapheme_byte_index_data,  \* EzStr.grapheme_byte_index_data: OnceCell<Vec<(usize, usize)>>
    op,                        \* the last call made on the instance, with its arguments
    ret,                       \* what that call returned, or the panic it ended with
    iter,                      \* the iterator find_iter returned, while the caller holds it
    state,                     \* per cache: the OnceCell's INCOMPLETE / RUNNING / COMPLETE
    pc,                        \* per thread: where it stands inside get_or_init
    local,                     \* per thread: the value its closure built / the reference it got
    runs                       \* per cache: how many times the initialising closure has run

vars == <<data, graphemes_data, grapheme_byte_index_data, state, op, ret, iter, pc, local, runs>>

-----------------------------------------------------------------------------
(* Bounds of the model. *)

MaxLen == 3        \* code points in the raw text
MaxText == 1       \* code points in the text of a hand-built GraphemeMatch
MaxPat == 2        \* code points in a regex pattern
Margin == 2        \* how far past [-N, N] the slice arguments range
NThreads == 2      \* threads sharing one instance
MaxRuns == 3       \* cap of the closure-run counter

-----------------------------------------------------------------------------
(* Text. *)

(* The code points of the model's alphabet: 'a'; the regex metacharacters   *)
(* '(' and '|'; U+0301 COMBINING ACUTE ACCENT, which is Grapheme_Extend    *)
(* and two bytes wide; and, in patterns only, '\' and the bell that the    *)
(* regex escape \a denotes.                                                *)
Ch == [a |-> 97, lparen |-> 40, pipe |-> 124, acute |-> 769, backslash |-> 92, bell |-> 7]

Alphabet == {Ch.a, Ch.lparen, Ch.pipe, Ch.acute}

StringsUpTo(n) == UNION {[1..k -> Alphabet] : k \in 0..n}

Strings == StringsUpTo(MaxLen)

(* The UTF-8 width of a code point (String stores UTF-8). *)
Utf8Len(c) == IF c < 128 THEN 1 ELSE IF c < 2048 THEN 2 ELSE IF c < 65536 THEN 3 ELSE 4

RECURSIVE ByteLen(_)
ByteLen(s) == IF s = <<>> THEN 0 ELSE Utf8Len(Head(s)) + ByteLen(Tail(s))

(* Grapheme_Cluster_Break = Extend, within the alphabet. *)
IsExtend(c) == c = Ch.acute

None == <<>>
Some(v) == <<v>>
Unwrap(o) == o[1]

Min(a, b) == IF a < b THEN a ELSE b

-----------------------------------------------------------------------------
(* Grapheme segmentation (unicode_segmentation, extended clusters): a      *)
(* cluster starts at the start of the text and before every code point     *)
(* that is not Extend (UAX #29 GB1, GB9, GB999).                           *)

RECURSIVE SegmentFlat(_)
SegmentFlat(gs) == IF gs = <<>> THEN <<>> ELSE Head(gs) \o SegmentFlat(Tail(gs))

RECURSIVE SegmentFrom(_, _)
SegmentFrom(s, acc) ==
    IF s = <<>> THEN acc
    ELSE IF acc # <<>> /\ IsExtend(Head(s))
         THEN SegmentFrom(Tail(s),
                  [acc EXCEPT ![Len(acc)] = Append(acc[Len(acc)], Head(s))])
         ELSE SegmentFrom(Tail(s), Append(acc, <<Head(s)>>))

(* UnicodeSegmentation::graphemes(data, true).map(Grapheme::new).collect() *)
GraphemesOf(s) == SegmentFrom(s, <<>>)

RECURSIVE OffsetsFrom(_, _, _)
OffsetsFrom(gs, i, b) ==
    IF i > Len(gs) THEN <<>>
    ELSE <<b>> \o OffsetsFrom(gs, i + 1, b + ByteLen(gs[i]))

(* Variant: the offsets counted in code points (char_indices-style), not   *)
(* in bytes.                                                               *)
ByteIndexOf_CharOffsets(s) ==
    LET gs == GraphemesOf(s)
    IN  [i \in 1..Len(gs) |-> <<Len(SegmentFlat(SubSeq(gs, 1, i - 1))), i - 1>>]

(* data.grapheme_indices(true).enumerate().map(|(gi, (bi, _))| (bi, gi)):  *)
(* one (byte offset, grapheme index) pair per cluster, indices from 0.     *)
ByteIndexOf(s) ==
    LET gs == GraphemesOf(s)
        offs == OffsetsFrom(gs, 1, 0)
    IN  [i \in 1..Len(gs) |-> <<offs[i], i - 1>>]

(* OnceCell::get_or_init as one step: the stored value, set from the       *)
(* closure's value when the cell is empty.                                 *)
GetOrInit(cell, v) == IF cell = None THEN Some(v) ELSE cell

-----------------------------------------------------------------------------
(* The locator. *)

(* [T]::binary_search_by_key(&key, |&(b, _)| b) of the standard library,   *)
(* on positions counted from 0: Ok(i) is [ok |-> TRUE, i |-> i], Err(i)    *)
(* is [ok |-> FALSE, i |-> i].                                             *)
RECURSIVE BinarySearchLoop(_, _, _, _)
BinarySearchLoop(idx, key, base, size) ==
    IF size > 1
    THEN LET half == size \div 2
             mid == base + half
         IN  BinarySearchLoop(idx, key,
                 IF idx[mid + 1][1] > key THEN base ELSE mid, size - half)
    ELSE IF idx[base + 1][1] = key THEN [ok |-> TRUE, i |-> base]
         ELSE [ok |-> FALSE, i |-> base + (IF idx[base + 1][1] < key THEN 1 ELSE 0)]

binary_search_by_key(idx, key) ==
    IF Len(idx) = 0 THEN [ok |-> FALSE, i |-> 0]
    ELSE BinarySearchLoop(idx, key, 0, Len(idx))

(* Variant: the Ok arm returns the pair's byte offset (.0). *)
Locate_ByteOffsetOnOk(idx, n, b) ==
    LET r == binary_search_by_key(idx, b)
    IN  IF r.ok THEN idx[r.i + 1][1]
        ELSE IF r.i < Len(idx) THEN idx[r.i + 1][2] ELSE n

(* Variant: the Err arm returns the cluster that holds the offset. *)
Locate_RoundDown(idx, n, b) ==
    LET r == binary_search_by_key(idx, b)
    IN  IF r.ok THEN idx[r.i + 1][2]
        ELSE IF r.i > 0 THEN idx[r.i][2] ELSE 0

(* One arm pair of byte_range_to_grapheme_indices:                         *)
(*   Ok(i)  => idx[i].1                                                    *)
(*   Err(i) => idx.get(i).map(|&(_, gi)| gi).unwrap_or(self.len())         *)
Locate(idx, n, b) ==
    LET r == binary_search_by_key(idx, b)
    IN  IF r.ok THEN idx[r.i + 1][2]
        ELSE IF r.i < Len(idx) THEN idx[r.i + 1][2] ELSE n

(* Variant: the two searches take each other's key. *)
byte_range_swapped(idx, n, start, end) ==
    <<Locate(idx, n, end), Locate(idx, n, start)>>

(* idx is what self.graphemes_byte_index() returned, n what self.len()     *)
(* returned.                                                               *)
byte_range_to_grapheme_indices(idx, n, start, end) ==
    <<Locate(idx, n, start), Locate(idx, n, end)>>

(* self.len() is an argument of unwrap_or, so it is evaluated, and the     *)
(* grapheme cache filled, whenever a search ends in Err.                   *)
ByteRangeCallsLen(idx, start, end) ==
    ~binary_search_by_key(idx, start).ok \/ ~binary_search_by_key(idx, end).ok

-----------------------------------------------------------------------------
(* The slice engine. *)

Returned(v) == [panic |-> "none", value |-> v]
Panicked(kind) == [panic |-> kind]

(* Variant: the common convention, len + v. *)
Remap_NoPlusOne(n, v) == IF v < 0 THEN n + v ELSE v

(* if v < 0 { v = graphemes.len() as i32 + v + 1 } *)
Remap(n, v) == IF v < 0 THEN n + v + 1 ELSE v

(* Variant: each cluster is put in front of what was collected. *)
RECURSIVE SliceLoop_Prepend(_, _, _, _)
SliceLoop_Prepend(gs, i, end, acc) ==
    IF i >= end THEN [panic |-> "none", value |-> acc]
    ELSE IF i < 0 \/ i >= Len(gs) THEN [panic |-> "index"]
    ELSE SliceLoop_Prepend(gs, i + 1, end, gs[i + 1] \o acc)

(* for i in start..end { ret += &graphemes[i as usize].value }: indexing   *)
(* panics when i as usize is not below graphemes.len().                    *)
RECURSIVE SliceLoop(_, _, _, _)
SliceLoop(gs, i, end, acc) ==
    IF i >= end THEN Returned(acc)
    ELSE IF i < 0 \/ i >= Len(gs) THEN Panicked("index")
    ELSE SliceLoop(gs, i + 1, end, acc \o gs[i + 1])

(* gs is what self.graphemes() returned; the value is the data of the      *)
(* EzStr that slice builds.                                                *)
slice(gs, start, end) ==
    SliceLoop(gs, Remap(Len(gs), start), Remap(Len(gs), end), <<>>)

-----------------------------------------------------------------------------
(* The pattern engine (the regex crate), for patterns over the alphabet:   *)
(* a compiled pattern is its alternatives, each a literal.                 *)

PatAlphabet == Alphabet \cup {Ch.backslash}

RECURSIVE ParseFrom(_, _, _)
ParseFrom(p, alts, cur) ==
    IF p = <<>> THEN [ok |-> TRUE, alts |-> Append(alts, cur)]
    ELSE LET c == Head(p)
         IN  IF c = Ch.backslash
             THEN IF Len(p) < 2 THEN [ok |-> FALSE]
                  ELSE LET e == p[2]
                           rest == Tail(Tail(p))
                       IN  IF e \in {Ch.pipe, Ch.lparen, Ch.backslash}
                           THEN ParseFrom(rest, alts, Append(cur, e))
                           ELSE IF e = Ch.a
                           THEN ParseFrom(rest, alts, Append(cur, Ch.bell))
                           ELSE [ok |-> FALSE]
             ELSE IF c = Ch.lparen THEN [ok |-> FALSE]
             ELSE IF c = Ch.pipe THEN ParseFrom(Tail(p), Append(alts, cur), <<>>)
             ELSE ParseFrom(Tail(p), alts, Append(cur, c))

(* Regex::new(pattern): [ok |-> FALSE] is Err (a pattern-syntax error).    *)
(* With no ')' in the alphabet, an unescaped '(' never closes.             *)
RegexNew(p) == ParseFrom(p, <<>>, <<>>)

MatchesAt(lit, s, pos) ==
    /\ pos + Len(lit) <= Len(s)
    /\ \A k \in 1..Len(lit) : s[pos + k] = lit[k]

RECURSIVE FirstAlt(_, _, _, _)
FirstAlt(alts, k, s, pos) ==
    IF k > Len(alts) THEN None
    ELSE IF MatchesAt(alts[k], s, pos) THEN Some(<<pos, pos + Len(alts[k])>>)
    ELSE FirstAlt(alts, k + 1, s, pos)

(* The leftmost-first match at or after code point position pos. *)
RECURSIVE SearchFrom(_, _, _)
SearchFrom(alts, s, pos) ==
    IF pos > Len(s) THEN None
    ELSE LET m == FirstAlt(alts, 1, s, pos)
         IN  IF m # None THEN m ELSE SearchFrom(alts, s, pos + 1)

(* The iterator of non-overlapping matches: an empty match that ends where *)
(* the previous match ended is replaced by a search one code point on.     *)
RECURSIVE MatchesFrom(_, _, _, _)
MatchesFrom(alts, s, pos, last) ==
    LET m1 == SearchFrom(alts, s, pos)
        m == IF m1 # None /\ m1[1][1] = m1[1][2] /\ m1[1][2] = last
             THEN SearchFrom(alts, s, pos + 1)
             ELSE m1
    IN  IF m = None THEN <<>>
        ELSE <<m[1]>> \o MatchesFrom(alts, s, m[1][2], m[1][2])

BytePos(s, pos) == ByteLen(SubSeq(s, 1, pos))

ByteSpan(s, m) == <<BytePos(s, m[1]), BytePos(s, m[2])>>

(* regex.find_iter(data): the byte spans (m.start(), m.end()), in order.   *)
(* An opaque engine reports the spans it was built with.                   *)
RegexFindIter(re, s) ==
    IF re.kind = "opaque" THEN re.spans
    ELSE LET ms == MatchesFrom(re.alts, s, 0, -1)
         IN  [i \in 1..Len(ms) |-> ByteSpan(s, ms[i])]

(* regex.find(data): the first of them, if any. *)
RegexFind(re, s) ==
    LET ms == RegexFindIter(re, s)
    IN  IF ms = <<>> THEN None ELSE Some(ms[1])

Compiled(p) == [kind |-> "compiled", pattern |-> p, alts |-> RegexNew(p).alts]

Opaque(spans) == [kind |-> "opaque", spans |-> spans]

-----------------------------------------------------------------------------
(* GraphemeMatch and the translator. *)

GraphemeMatch(start, end, text) == [start |-> start, end |-> end, text |-> text]

(* The closure of find and find_iter: |m| { let (g_start, g_end) =         *)
(* self.byte_range_to_grapheme_indices(m.start(), m.end());                *)
(* GraphemeMatch::new(g_start, g_end, self.slice(g_start, g_end)) }        *)
TranslateMatch(idx, gs, span) ==
    LET g == byte_range_to_grapheme_indices(idx, Len(gs), span[1], span[2])
        t == slice(gs, g[1], g[2])
    IN  IF t.panic # "none" THEN t
        ELSE Returned(GraphemeMatch(g[1], g[2], t.value))

(* source.find_iter(&re).collect(): the matches of every span; the first   *)
(* panic ends the call.                                                    *)
TranslateAll(idx, gs, spans) ==
    LET rs == [i \in 1..Len(spans) |-> TranslateMatch(idx, gs, spans[i])]
    IN  IF \E i \in 1..Len(rs) : rs[i].panic # "none"
        THEN Panicked("index")
        ELSE Returned([i \in 1..Len(rs) |-> rs[i].value])

find_iter(idx, gs, re, s) == TranslateAll(idx, gs, RegexFindIter(re, s))

find(idx, gs, re, s) ==
    LET m == RegexFind(re, s)
    IN  IF m = None THEN Returned(None)
        ELSE LET r == TranslateMatch(idx, gs, m[1])
             IN  IF r.panic # "none" THEN r ELSE Returned(Some(r.value))

(* Variant: the span is taken by code point, as in                         *)
(* source.chars().collect::<Vec<_>>()[self.start..self.end].               *)
is_valid_chars(m, gs) ==
    LET cs == SegmentFlat(gs)
    IN  IF m.start > m.end \/ m.end > Len(cs) THEN Panicked("index")
        ELSE Returned(SubSeq(cs, m.start + 1, m.end) = m.text)

(* let a = source.slice(self.start as i32, self.end as i32);               *)
(* let b = EzStr::new(&self.text.data); a == b                             *)
is_valid(m, gs) ==
    LET a == slice(gs, m.start, m.end)
    IN  IF a.panic # "none" THEN a ELSE Returned(a.value = m.text)

(* b.data.as_str().replace("|", r"\|") *)
RECURSIVE EscapePipes(_)
EscapePipes(t) ==
    IF t = <<>> THEN <<>>
    ELSE (IF Head(t) = Ch.pipe THEN <<Ch.backslash, Ch.pipe>> ELSE <<Head(t)>>)
         \o EscapePipes(Tail(t))

(* ensure_is_valid(source): source is taken by value and source.into() is  *)
(* an EzStr of its own, here one with the text s; every slice and search   *)
(* of the call runs on that EzStr and fills its cells, not the caller's.   *)
ensure_is_valid(m, s) ==
    LET gs == GraphemesOf(s)
        idx == ByteIndexOf(s)
        v == is_valid(m, gs)
    IN  IF v.panic # "none" THEN v
        ELSE IF v.value THEN Returned("unit")
        ELSE LET a == slice(gs, m.start, m.end)
                 re == RegexNew(EscapePipes(m.text))
             IN  IF a.panic # "none" THEN a
                 ELSE IF ~re.ok THEN Panicked("regex")
                 ELSE LET hits == find_iter(idx, gs, Compiled(EscapePipes(m.text)), s)
                      IN  IF hits.panic # "none" THEN hits
                          ELSE [panic |-> "invalid", expected |-> m.text,
                                actual |-> a.value, hits |-> hits.value]

-----------------------------------------------------------------------------
(* State. *)

Threads == 1..NThreads

Cells == {"graphemes", "byte_index"}

Idle == [at |-> "idle", cell |-> "none"]

NoCall == [name |-> "none"]

(* EzStr::new(data): both cells empty. *)
Init ==
    /\ data \in Strings
    /\ graphemes_data = None
    /\ grapheme_byte_index_data = None
    /\ op = NoCall
    /\ ret = Returned("unit")
    /\ iter = None
    /\ state = [c \in Cells |-> "INCOMPLETE"]
    /\ pc = [t \in Threads |-> Idle]
    /\ local = [t \in Threads |-> None]
    /\ runs = [c \in Cells |-> 0]

(* What the closure of each accessor computes from the raw text. *)
ClosureValue(c) == IF c = "graphemes" THEN GraphemesOf(data) ELSE ByteIndexOf(data)

CellValue(c) == IF c = "graphemes" THEN graphemes_data ELSE grapheme_byte_index_data

(* What self.graphemes() and self.graphemes_byte_index() return in this    *)
(* state: the stored value, which the call sets first when the cell is     *)
(* empty.                                                                  *)
graphemes == Unwrap(GetOrInit(graphemes_data, ClosureValue("graphemes")))

graphemes_byte_index ==
    Unwrap(GetOrInit(grapheme_byte_index_data, ClosureValue("byte_index")))

(* self.len(): self.graphemes().len() *)
len == Len(graphemes)

-----------------------------------------------------------------------------
(* Calls made by the single owner of the instance: each runs to its end.   *)
(* A call that reaches self.graphemes() / self.graphemes_byte_index()      *)
(* leaves that cell filled, also when it panics afterwards. The caller     *)
(* holds the result of one call at a time: it drops it before the next     *)
(* call, except that it may validate a match it has been handed. While it  *)
(* holds an iterator of find_iter it takes matches from it one next() at a *)
(* time and, in between, makes the calls that take no argument (they reach *)
(* every state of the two cells) and validates the matches taken.          *)

Access(g, b) ==
    /\ graphemes_data' =
          IF g THEN GetOrInit(graphemes_data, ClosureValue("graphemes"))
          ELSE graphemes_data
    /\ grapheme_byte_index_data' =
          IF b THEN GetOrInit(grapheme_byte_index_data, ClosureValue("byte_index"))
          ELSE grapheme_byte_index_data
    /\ state' = [c \in Cells |->
                   IF (IF c = "graphemes" THEN g ELSE b) THEN "COMPLETE" ELSE state[c]]
    /\ runs' = [c \in Cells |->
                  IF (IF c = "graphemes" THEN g ELSE b) /\ CellValue(c) = None
                  THEN Min(runs[c] + 1, MaxRuns) ELSE runs[c]]
    /\ UNCHANGED <<data, pc, local>>

SliceArgs == -(MaxLen + Margin)..(MaxLen + Margin)

IndexArgs == 0..(MaxLen + Margin)

ByteArgs == 0..(ByteLen(data) + Margin)

Spans == {sp \in (0..ByteLen(data)) \X (0..ByteLen(data)) : sp[1] <= sp[2]}

Patterns == UNION {[1..k -> PatAlphabet] : k \in 0..MaxPat}

Regexes ==
    {Compiled(p) : p \in {q \in Patterns : RegexNew(q).ok}}
        \cup {Opaque(<<sp>>) : sp \in Spans}

HandBuilt ==
    {GraphemeMatch(a, b, t) : a \in 0..(len + 1), b \in 0..(len + 1),
                              t \in StringsUpTo(MaxText)}

(* The matches the caller has been handed: the Option that find or next()  *)
(* just returned, and what it has taken from the iterator it holds.        *)
Produced ==
    (IF ret.panic = "none" /\ op.name \in {"find", "next"}
     THEN {ret.value[i] : i \in 1..Len(ret.value)}
     ELSE {})
    \cup (IF iter # None THEN {iter[1].taken[i] : i \in 1..Len(iter[1].taken)} ELSE {})

(* The matches a validation is called with: built by hand on a fresh       *)
(* start, otherwise one of those handed out.                               *)
Candidates == IF op = NoCall /\ iter = None THEN HandBuilt ELSE Produced

Graphemes ==
    /\ op = NoCall
    /\ Access(TRUE, FALSE)
    /\ op' = [name |-> "graphemes"]
    /\ ret' = Returned(graphemes)
    /\ UNCHANGED iter

GraphemesByteIndex ==
    /\ op = NoCall
    /\ Access(FALSE, TRUE)
    /\ op' = [name |-> "graphemes_byte_index"]
    /\ ret' = Returned(graphemes_byte_index)
    /\ UNCHANGED iter

LenCall ==
    /\ op = NoCall
    /\ Access(TRUE, FALSE)
    /\ op' = [name |-> "len"]
    /\ ret' = Returned(len)
    /\ UNCHANGED iter

(* is_empty: self.len() == 0 *)
IsEmpty ==
    /\ op = NoCall
    /\ Access(TRUE, FALSE)
    /\ op' = [name |-> "is_empty"]
    /\ ret' = Returned(len = 0)
    /\ UNCHANGED iter

(* (&e).into_iter(): self.graphemes().iter() *)
IntoIter ==
    /\ op = NoCall
    /\ Access(TRUE, FALSE)
    /\ op' = [name |-> "into_iter"]
    /\ ret' = Returned(graphemes)
    /\ UNCHANGED iter

(* contains: self.data.contains(substring), on the raw text alone. *)
Contains ==
    /\ op = NoCall
    /\ iter = None
    /\ \E sub \in StringsUpTo(MaxText) :
        /\ Access(FALSE, FALSE)
        /\ op' = [name |-> "contains", substring |-> sub]
        /\ ret' = Returned(\E pos \in 0..(Len(data) - Len(sub)) :
                               SubSeq(data, pos + 1, pos + Len(sub)) = sub)
    /\ UNCHANGED iter

(* e[index]: &self.graphemes()[index] *)
IndexAt ==
    /\ op = NoCall
    /\ iter = None
    /\ \E index \in IndexArgs :
        /\ Access(TRUE, FALSE)
        /\ op' = [name |-> "index", index |-> index]
        /\ ret' = IF index < len THEN Returned(graphemes[index + 1])
                  ELSE Panicked("index")
    /\ UNCHANGED iter

(* e[start..end]: &self.graphemes()[index] with a Range<usize> *)
IndexRange ==
    /\ op = NoCall
    /\ iter = None
    /\ \E start \in IndexArgs, end \in IndexArgs :
        /\ Access(TRUE, FALSE)
        /\ op' = [name |-> "index_range", start |-> start, end |-> end]
        /\ ret' = IF start <= end /\ end <= len
                  THEN Returned(SubSeq(graphemes, start + 1, end))
                  ELSE Panicked("index")
    /\ UNCHANGED iter

Slice ==
    /\ op = NoCall
    /\ iter = None
    /\ \E start \in SliceArgs, end \in SliceArgs :
        /\ Access(TRUE, FALSE)
        /\ op' = [name |-> "slice", start |-> start, end |-> end]
        /\ ret' = slice(graphemes, start, end)
    /\ UNCHANGED iter

ByteRange ==
    /\ op = NoCall
    /\ iter = None
    /\ \E start \in ByteArgs, end \in ByteArgs :
        /\ Access(ByteRangeCallsLen(graphemes_byte_index, start, end), TRUE)
        /\ op' = [name |-> "byte_range_to_grapheme_indices",
                  start |-> start, end |-> end]
        /\ ret' = Returned(byte_range_to_grapheme_indices(
                      graphemes_byte_index, len, start, end))
    /\ UNCHANGED iter

Find ==
    /\ op = NoCall
    /\ iter = None
    /\ \E re \in Regexes :
        /\ Access(RegexFind(re, data) # None, RegexFind(re, data) # None)
        /\ op' = [name |-> "find", regex |-> re]
        /\ ret' = find(graphemes_byte_index, graphemes, re, data)
    /\ UNCHANGED iter

(* find_iter: regex.find_iter(data).map(closure), a lazy iterator. The     *)
(* call runs no closure and reaches no cell. rest is what the regex        *)
(* iterator will still report on the (immutable) text, taken what the      *)
(* caller has got out of next() so far.                                    *)
FindIter ==
    /\ op = NoCall
    /\ iter = None
    /\ \E re \in Regexes :
        /\ Access(FALSE, FALSE)
        /\ op' = [name |-> "find_iter", regex |-> re]
        /\ ret' = Returned("iterator")
        /\ iter' = Some([regex |-> re, rest |-> RegexFindIter(re, data),
                         taken |-> <<>>, done |-> FALSE])

(* next() on the iterator: None when the regex iterator is at its end,     *)
(* otherwise the closure runs on the next byte span.                       *)
IterNext ==
    /\ op = NoCall
    /\ iter # None
    /\ ~iter[1].done
    /\ op' = [name |-> "next"]
    /\ IF iter[1].rest = <<>>
       THEN /\ Access(FALSE, FALSE)
            /\ ret' = Returned(None)
            /\ iter' = Some([iter[1] EXCEPT !.done = TRUE])
       ELSE LET r == TranslateMatch(graphemes_byte_index, graphemes,
                                    Head(iter[1].rest))
            IN  /\ Access(TRUE, TRUE)
                /\ ret' = IF r.panic # "none" THEN r ELSE Returned(Some(r.value))
                /\ iter' = Some([iter[1] EXCEPT
                                   !.rest = Tail(@),
                                   !.taken = IF r.panic # "none" THEN @
                                             ELSE Append(@, r.value)])

(* The caller drops the iterator, at its end or before. *)
IterDrop ==
    /\ op = NoCall
    /\ iter # None
    /\ iter' = None
    /\ UNCHANGED <<data, graphemes_data, grapheme_byte_index_data, state, op, ret,
                   pc, local, runs>>

IsValid ==
    /\ \E m \in Candidates :
        /\ Access(TRUE, FALSE)
        /\ op' = [name |-> "is_valid", m |-> m, produced |-> m \in Produced]
        /\ ret' = is_valid(m, graphemes)
    /\ UNCHANGED iter

(* ensure_is_valid(e.clone()): the source is a copy of the instance's      *)
(* text; the instance's own cells are not reached.                         *)
EnsureIsValid ==
    /\ \E m \in Candidates :
        /\ Access(FALSE, FALSE)
        /\ op' = [name |-> "ensure_is_valid", m |-> m, produced |-> m \in Produced]
        /\ ret' = ensure_is_valid(m, data)
    /\ UNCHANGED iter

(* The caller lets go of what the last call returned. *)
Drop ==
    /\ op # NoCall
    /\ op' = NoCall
    /\ ret' = Returned("unit")
    /\ UNCHANGED <<data, graphemes_data, grapheme_byte_index_data, state, iter,
                   pc, local, runs>>

Next ==
    \/ Drop
    \/ Graphemes
    \/ GraphemesByteIndex
    \/ LenCall
    \/ IsEmpty
    \/ IntoIter
    \/ Contains
    \/ IndexAt
    \/ IndexRange
    \/ Slice
    \/ ByteRange
    \/ Find
    \/ FindIter
    \/ IterNext
    \/ IterDrop
    \/ IsValid
    \/ EnsureIsValid

Spec == Init /\ [][Next]_vars

-----------------------------------------------------------------------------
(* Threads sharing one instance by reference: each call of graphemes() or   *)
(* graphemes_byte_index() is a call of OnceCell::get_or_init               *)
(* (once_cell::sync), taken one atomic step at a time.                     *)

At(t, where) == pc[t].at = where

(* Variant: a check of "not yet COMPLETE" in place of the compare-and-swap. *)
Claimable_NoCas(c) == state[c] # "COMPLETE"

(* The compare-and-swap INCOMPLETE -> RUNNING succeeds. *)
Claimable(c) == state[c] = "INCOMPLETE"

SetCell(c, v) ==
    /\ graphemes_data' = IF c = "graphemes" THEN v ELSE graphemes_data
    /\ grapheme_byte_index_data' =
          IF c = "byte_index" THEN v ELSE grapheme_byte_index_data

CellsUnchanged == UNCHANGED <<graphemes_data, grapheme_byte_index_data>>

(* A thread calls self.graphemes() or self.graphemes_byte_index(). *)
Call(t, c) ==
    /\ At(t, "idle")
    /\ pc' = [pc EXCEPT ![t] = [at |-> "get", cell |-> c]]
    /\ CellsUnchanged
    /\ UNCHANGED <<iter, data, state, op, ret, local, runs>>

(* The cell is COMPLETE: the call returns a reference to the stored value. *)
FastPath(t) ==
    /\ At(t, "get")
    /\ state[pc[t].cell] = "COMPLETE"
    /\ pc' = [pc EXCEPT ![t].at = "done"]
    /\ local' = [local EXCEPT ![t] = CellValue(pc[t].cell)]
    /\ CellsUnchanged
    /\ UNCHANGED <<iter, data, state, op, ret, runs>>

(* The cell is INCOMPLETE and this thread wins it. *)
Claim(t) ==
    /\ At(t, "get")
    /\ Claimable(pc[t].cell)
    /\ state' = [state EXCEPT ![pc[t].cell] = "RUNNING"]
    /\ pc' = [pc EXCEPT ![t].at = "init"]
    /\ CellsUnchanged
    /\ UNCHANGED <<iter, data, op, ret, local, runs>>

(* Another thread is initialising the cell: wait for it. *)
Park(t) ==
    /\ At(t, "get")
    /\ state[pc[t].cell] = "RUNNING"
    /\ pc' = [pc EXCEPT ![t].at = "wait"]
    /\ CellsUnchanged
    /\ UNCHANGED <<iter, data, state, op, ret, local, runs>>

(* The winner runs the accessor's closure. *)
RunClosure(t) ==
    /\ At(t, "init")
    /\ runs[pc[t].cell] < MaxRuns
    /\ local' = [local EXCEPT ![t] = Some(ClosureValue(pc[t].cell))]
    /\ runs' = [runs EXCEPT ![pc[t].cell] = @ + 1]
    /\ pc' = [pc EXCEPT ![t].at = "write"]
    /\ CellsUnchanged
    /\ UNCHANGED <<iter, data, state, op, ret>>

(* ... moves the value into the cell's slot ... *)
WriteValue(t) ==
    /\ At(t, "write")
    /\ SetCell(pc[t].cell, local[t])
    /\ pc' = [pc EXCEPT ![t].at = "complete"]
    /\ UNCHANGED <<iter, data, state, op, ret, local, runs>>

(* ... and publishes it: COMPLETE, waking the waiters; it returns a        *)
(* reference to the stored value.                                          *)
Complete(t) ==
    /\ At(t, "complete")
    /\ state' = [state EXCEPT ![pc[t].cell] = "COMPLETE"]
    /\ pc' = [pc EXCEPT ![t].at = "done"]
    /\ local' = [local EXCEPT ![t] = CellValue(pc[t].cell)]
    /\ CellsUnchanged
    /\ UNCHANGED <<iter, data, op, ret, runs>>

(* A waiter sees COMPLETE and returns a reference to the stored value. *)
Wake(t) ==
    /\ At(t, "wait")
    /\ state[pc[t].cell] = "COMPLETE"
    /\ pc' = [pc EXCEPT ![t].at = "done"]
    /\ local' = [local EXCEPT ![t] = CellValue(pc[t].cell)]
    /\ CellsUnchanged
    /\ UNCHANGED <<iter, data, state, op, ret, runs>>

(* The caller is done with the reference. *)
Return(t) ==
    /\ At(t, "done")
    /\ pc' = [pc EXCEPT ![t] = Idle]
    /\ local' = [local EXCEPT ![t] = None]
    /\ CellsUnchanged
    /\ UNCHANGED <<iter, data, state, op, ret, runs>>

NextConc ==
    \/ \E t \in Threads, c \in Cells : Call(t, c)
    \/ \E t \in Threads : FastPath(t)
    \/ \E t \in Threads : Claim(t)
    \/ \E t \in Threads : Park(t)
    \/ \E t \in Threads : RunClosure(t)
    \/ \E t \in Threads : WriteValue(t)
    \/ \E t \in Threads : Complete(t)
    \/ \E t \in Threads : Wake(t)
    \/ \E t \in Threads : Return(t)

SpecConc == Init /\ [][NextConc]_vars

-----------------------------------------------------------------------------
(* What the properties are stated in: the clusters of the raw text and     *)
(* their positions, written down without the locator or the slice loop.    *)

RECURSIVE Concat(_)
Concat(seqs) == IF seqs = <<>> THEN <<>> ELSE Head(seqs) \o Concat(Tail(seqs))

Clusters == GraphemesOf(data)

N == Len(Clusters)

L == ByteLen(data)

(* The byte offset at which cluster k (from 0) starts; k = N gives L. *)
StartByte(k) == ByteLen(Concat(SubSeq(Clusters, 1, k)))

(* The code point position at which cluster k (from 0) starts. *)
StartPos(k) == Len(Concat(SubSeq(Clusters, 1, k)))

HasWideCluster == \E k \in 1..N : Len(Clusters[k]) > 1

Called(name) == op.name = name

-----------------------------------------------------------------------------
(* C1: identity slice. For every text, slice(0, -1) returns a string equal *)
(* to the text itself.                                                     *)
C1_IdentitySlice ==
    (Called("slice") /\ op.start = 0 /\ op.end = -1) => ret = Returned(data)

C1_Witness ==
    /\ Called("slice") /\ op.start = 0 /\ op.end = -1
    /\ N >= 2 /\ HasWideCluster
    /\ ret = Returned(data)

(* C3: the negative-index formula. slice(start, end) replaces a negative   *)
(* argument v by N + v + 1, and when the replaced indices satisfy          *)
(* 0 <= start' <= end' <= N the result is the clusters start' .. end'-1,   *)
(* concatenated in order.                                                  *)
C3_NegativeIndexFormula ==
    Called("slice") =>
        LET s1 == IF op.start < 0 THEN N + op.start + 1 ELSE op.start
            e1 == IF op.end < 0 THEN N + op.end + 1 ELSE op.end
        IN  (0 <= s1 /\ s1 <= e1 /\ e1 <= N) =>
                ret = Returned(Concat(SubSeq(Clusters, s1 + 1, e1)))

C3_Witness ==
    /\ Called("slice") /\ op.start = -2 /\ op.end = -1
    /\ N = 2 /\ Len(Clusters[2]) > 1
    /\ ret = Returned(Clusters[2])

(* C4: out-of-range slice indices fail loudly. Whenever either index of    *)
(* slice(start, end) lies outside [0, N] after the negative-index          *)
(* replacement, the call panics and returns no string.                     *)
C4_OutOfRangePanics ==
    Called("slice") =>
        LET s1 == IF op.start < 0 THEN N + op.start + 1 ELSE op.start
            e1 == IF op.end < 0 THEN N + op.end + 1 ELSE op.end
        IN  (s1 \notin 0..N \/ e1 \notin 0..N) => ret.panic = "index"

(* C5: locator totality and monotonicity. For byte offsets                 *)
(* b1 <= b2 in [0, L], byte_range_to_grapheme_indices returns indices in   *)
(* [0, N] with index(b1) <= index(b2).                                     *)
C5_LocatorTotalMonotone ==
    (Called("byte_range_to_grapheme_indices") /\ op.start <= op.end /\ op.end <= L) =>
        /\ ret.panic = "none"
        /\ ret.value[1] \in 0..N
        /\ ret.value[2] \in 0..N
        /\ ret.value[1] <= ret.value[2]

C5_Witness ==
    /\ Called("byte_range_to_grapheme_indices")
    /\ op.start < op.end /\ op.end <= L
    /\ \A k \in 0..N : StartByte(k) # op.start
    /\ ret.panic = "none" /\ ret.value[1] < ret.value[2]

(* What the resolution rule gives for byte offset b, from the cluster      *)
(* starts alone.                                                           *)
Resolved(b) ==
    IF \E k \in 0..(N - 1) : StartByte(k) = b
    THEN CHOOSE k \in 0..(N - 1) : StartByte(k) = b
    ELSE IF \E k \in 0..(N - 1) : StartByte(k) > b
    THEN CHOOSE k \in 0..(N - 1) :
             /\ StartByte(k) > b
             /\ \A j \in 0..(N - 1) : StartByte(j) > b => k <= j
    ELSE N

(* C10: the locator's resolution rule. A byte offset b resolves to the     *)
(* index of the cluster that starts at b when there is one, otherwise to   *)
(* the index of the first cluster that starts after b, and to N when no    *)
(* cluster starts at or after b; the start and the end of the range each   *)
(* by this rule.                                                           *)
C10_ResolutionRule ==
    Called("byte_range_to_grapheme_indices") =>
        ret = Returned(<<Resolved(op.start), Resolved(op.end)>>)

C10_Witness ==
    /\ Called("byte_range_to_grapheme_indices")
    /\ N >= 2
    /\ op.start > 0 /\ op.start < StartByte(1)
    /\ op.end > StartByte(N - 1)
    /\ ret = Returned(<<1, N>>)

-----------------------------------------------------------------------------
(* Claims about the translator and the validator. *)

(* find and next() hand out an Option<GraphemeMatch>. *)
IsMatchCall == Called("find") \/ Called("next")

InBounds(m) == 0 <= m.start /\ m.start <= m.end /\ m.end <= N

(* The byte span the engine reported lies apart from the cluster           *)
(* boundaries at one end at least.                                         *)
Unaligned(sp) ==
    \/ \A k \in 0..N : StartByte(k) # sp[1]
    \/ \A k \in 0..N : StartByte(k) # sp[2]

(* C2: round trip through the validator. A GraphemeMatch that find or      *)
(* find_iter built on a source is valid on that source: is_valid returns   *)
(* true.                                                                   *)
C2_ProducedMatchIsValid ==
    (Called("is_valid") /\ op.produced) => ret = Returned(TRUE)

C2_Witness ==
    /\ Called("is_valid") /\ op.produced
    /\ HasWideCluster
    /\ op.m.start < op.m.end
    /\ Len(op.m.text) > op.m.end - op.m.start
    /\ ret = Returned(TRUE)

(* C9: the bounds of a produced match. Every GraphemeMatch that find or    *)
(* the iterator of find_iter hands out satisfies 0 <= start <= end <= N,   *)
(* and the call does not panic, whatever byte span b_start <= b_end in     *)
(* [0, L] the engine reported.                                             *)
C9_MatchBounds ==
    /\ IsMatchCall =>
           /\ ret.panic = "none"
           /\ \A i \in 1..Len(ret.value) : InBounds(ret.value[i])
    /\ iter # None =>
           \A i \in 1..Len(iter[1].taken) : InBounds(iter[1].taken[i])

C9_Witness ==
    /\ Called("find")
    /\ op.regex.kind = "opaque"
    /\ Unaligned(op.regex.spans[1])
    /\ op.regex.spans[1][1] < op.regex.spans[1][2]
    /\ ret.panic = "none" /\ Len(ret.value) = 1
    /\ ret.value[1].start < ret.value[1].end

(* The occurrences of a literal p in the raw text, by code point position, *)
(* and the ones a left-to-right scan without overlaps keeps.               *)
OccursAt(p, pos) == pos + Len(p) <= Len(data) /\ SubSeq(data, pos + 1, pos + Len(p)) = p

RECURSIVE ScanFrom(_, _)
ScanFrom(p, from) ==
    IF \A pos \in from..Len(data) : ~OccursAt(p, pos) THEN <<>>
    ELSE LET pos == CHOOSE q \in from..Len(data) :
                        OccursAt(p, q) /\ \A r \in from..(q - 1) : ~OccursAt(p, r)
         IN  <<pos>> \o ScanFrom(p, IF p = <<>> THEN pos + 1 ELSE pos + Len(p))

OnBoundary(pos) == \E k \in 0..N : StartPos(k) = pos

ClusterAt(pos) == CHOOSE k \in 0..N : StartPos(k) = pos

(* The caller holds the iterator of a pattern that is one literal. *)
IsLiteralCall ==
    /\ iter # None
    /\ iter[1].regex.kind = "compiled"
    /\ Len(iter[1].regex.alts) = 1

AllOccurrencesAligned(p) ==
    \A pos \in 0..Len(data) :
        OccursAt(p, pos) => OnBoundary(pos) /\ OnBoundary(pos + Len(p))

(* C7: literal patterns. When every occurrence of a literal p in the text  *)
(* starts and ends on a cluster boundary, the iterator of find_iter yields *)
(* one match per occurrence that a left-to-right scan without overlaps     *)
(* finds, in that order and at that occurrence's clusters, each with text  *)
(* p: no next() panics, what has been taken is the start of that list,     *)
(* and all of it once next() has returned None.                            *)
C7_LiteralMatches ==
    IsLiteralCall =>
        LET p == iter[1].regex.alts[1]
            occ == ScanFrom(p, 0)
            taken == iter[1].taken
        IN  AllOccurrencesAligned(p) =>
                /\ Called("next") => ret.panic = "none"
                /\ Len(taken) + Len(iter[1].rest) = Len(occ)
                /\ iter[1].done => Len(taken) = Len(occ)
                /\ \A i \in 1..Len(taken) :
                       taken[i] = GraphemeMatch(ClusterAt(occ[i]),
                                      ClusterAt(occ[i] + Len(p)), p)

C7_Witness ==
    /\ IsLiteralCall
    /\ AllOccurrencesAligned(iter[1].regex.alts[1])
    /\ HasWideCluster
    /\ Len(iter[1].regex.alts[1]) = 2
    /\ iter[1].done /\ Len(iter[1].taken) = 1
    /\ iter[1].taken[1].start = 1
    /\ iter[1].taken[1].text = iter[1].regex.alts[1]

(* C8: the validator's diagnostic. ensure_is_valid, called with a match    *)
(* whose indices are in range and do not reproduce its text, panics with   *)
(* the match-validity diagnostic (the expected text, the text sliced, the  *)
(* hits of the literal search) and never with a pattern-syntax error,      *)
(* whatever metacharacters the text holds.                                 *)
C8_DiagnosticForAnyText ==
    (/\ Called("ensure_is_valid")
     /\ op.m.start <= op.m.end /\ op.m.end <= N
     /\ Concat(SubSeq(Clusters, op.m.start + 1, op.m.end)) # op.m.text)
        => /\ ret.panic = "invalid"
           /\ ret.expected = op.m.text
           /\ ret.actual = Concat(SubSeq(Clusters, op.m.start + 1, op.m.end))

-----------------------------------------------------------------------------
(* Claims about the caches under concurrency. *)

Value(c) == IF c = "graphemes" THEN GraphemesOf(data) ELSE ByteIndexOf(data)

C6_Inv ==
    /\ \A c \in Cells : runs[c] <= 1
    /\ \A c \in Cells : CellValue(c) \in {None, Some(Value(c))}
    /\ \A c \in Cells : state[c] = "COMPLETE" => CellValue(c) = Some(Value(c))
    /\ \A t \in Threads : At(t, "done") => local[t] = Some(Value(pc[t].cell))

C6_Stable ==
    \A c \in Cells :
        (state[c] = "COMPLETE") =>
            /\ state'[c] = "COMPLETE"
            /\ (IF c = "graphemes" THEN graphemes_data' ELSE grapheme_byte_index_data')
                 = CellValue(c)

(* C6: exactly-once initialisation. Under every interleaving of threads    *)
(* calling graphemes() or graphemes_byte_index() on one instance, the      *)
(* closure of a cache runs at most once, every call returns the fully      *)
(* built value derived from the raw text, and a cache that is set never    *)
(* changes.                                                                *)
C6_ExactlyOnce == [](C6_Inv) /\ [][C6_Stable]_vars

C6_Witness ==
    \E t, u \in Threads : \E c \in Cells :
        /\ t # u
        /\ At(t, "done") /\ pc[t].cell = c
        /\ At(u, "wait") /\ pc[u].cell = c
        /\ runs[c] = 1
        /\ HasWideCluster
        /\ local[t] = Some(Value(c))

=============================================================================
